---- MODULE Spec2Model ----
(***************************************************************************)
(* Lexical search and ranking engine of src/App.tsx (form-driven variant,   *)
(* lines 1-508): getStem, the synonym index, the catalog index and          *)
(* handleSearchLocal.                                                       *)
(*                                                                          *)
(* Strings are sequences of one-character strings.  Cyrillic letters are    *)
(* written in Latin transliteration, one symbol per letter:                 *)
(*   a=а b=б v=в g=г d=д e=е zh=ж i=и j=й k=к l=л m=м n=н o=о p=п r=р s=с   *)
(*   t=т u=у f=ф h=х ch=ч y=ы q=ь yu=ю ya=я ; an upper-case symbol is the    *)
(*   capital of the same letter.                                            *)
(* Array positions are 1-based here and 0-based in the source.              *)
(* A JavaScript Map is a sequence of [key, val] records in insertion order. *)
(***************************************************************************)
EXTENDS Integers, Sequences, FiniteSets, TLC

VARIABLES
    TNVED_DB,         \* the catalog (data/tnved_db), read-only
    SYNONYMS,         \* the synonym map in Object.entries order (data/search_maps)
    stemToPrefixes,   \* memoized Map stem -> code prefixes
    stemPrefixIndex,  \* memoized Map first three characters -> stems
    searchIndex,      \* memoized {items, byPrefix2, byPrefix4, byStem}
    query,            \* the argument handleSearchLocal is called with
    lastSearch,       \* the locals and the return value of the last handleSearchLocal call
    callCount,        \* the number of handleSearchLocal calls made so far
    word,             \* the argument getStem is called with
    lastStem,         \* the last getStem call: its argument and what it returned
    searchQuery,      \* App state: the text of the search field
    isSearching,      \* App state: the loading flag
    searchResults,    \* App state: the entries on display
    hasSearched,      \* App state: a search was made
    timers,           \* the pending setTimeout callbacks, oldest first: what each captured
    cleared           \* the timer the last clearTimeout call cancelled, if any

vars == <<TNVED_DB, SYNONYMS, stemToPrefixes, stemPrefixIndex, searchIndex,
          query, lastSearch, callCount, word, lastStem,
          searchQuery, isSearching, searchResults, hasSearched, timers, cleared>>

\* The state of the App component around the search field.
ui == <<searchQuery, isSearching, searchResults, hasSearched, timers, cleared>>

\* The catalog, the synonym map and the memoized indexes.
data == <<TNVED_DB, SYNONYMS, stemToPrefixes, stemPrefixIndex, searchIndex>>

(***************************************************************************)
(* Bounds of the model.                                                     *)
(***************************************************************************)
MaxCatalog == 36
MaxQueryWords == 3
MaxWordLen == 4
MaxCalls == 2

(***************************************************************************)
(* JavaScript string methods.                                               *)
(***************************************************************************)
Min(a, b) == IF a < b THEN a ELSE b

Whitespace == {" ", "\t"}

Punctuation == {".", ",", "!", "?", ";", ":"}

\* String.prototype.toLowerCase on one character
lowerChar(c) ==
    CASE c = "S" -> "s"
      [] c = "T" -> "t"
      [] c = "N" -> "n"
      [] c = "CH" -> "ch"
      [] c = "F" -> "f"
      [] c = "Z" -> "z"
      [] c = "O" -> "o"
      [] c = "M" -> "m"
      [] OTHER -> c

toLowerCase(s) == [i \in 1..Len(s) |-> lowerChar(s[i])]

\* The k-th smallest element of a finite set of integers
kth(S, k) == CHOOSE i \in S : Cardinality({j \in S : j <= i}) = k

\* The elements of s at the positions in P, in order
pick(s, P) ==
    LET at == SelectSeq([i \in 1..Len(s) |-> i], LAMBDA i : i \in P)
    IN  [k \in 1..Len(at) |-> s[at[k]]]

\* s.trim(): from the first to the last character that is no whitespace
trim(s) ==
    LET solid == {i \in 1..Len(s) : s[i] \notin Whitespace}
    IN  IF solid = {} THEN <<>>
        ELSE SubSeq(s, kth(solid, 1), kth(solid, Cardinality(solid)))

\* s.replace(/[.,!?;:]/g, '')
stripPunctuation(s) == SelectSeq(s, LAMBDA c : c \notin Punctuation)

\* s.slice(0, n)
slice(s, n) == SubSeq(s, 1, Min(n, Len(s)))

startsWith(s, p) == Len(p) <= Len(s) /\ SubSeq(s, 1, Len(p)) = p

endsWith(s, p) == Len(p) <= Len(s) /\ SubSeq(s, Len(s) - Len(p) + 1, Len(s)) = p

\* s.includes(sub)
includes(s, sub) ==
    \E i \in 1..(Len(s) - Len(sub) + 1) : SubSeq(s, i, i + Len(sub) - 1) = sub

\* s.split(/\s+/): the pieces between maximal whitespace runs; a leading or
\* trailing run leaves an empty piece, as in JavaScript.
\* A piece starts at position 1 and after every maximal whitespace run, and
\* runs up to the next whitespace.
pieceFrom(s, p) ==
    LET stops == {q \in p..Len(s) : s[q] \in Whitespace}
    IN  SubSeq(s, p, IF stops = {} THEN Len(s) ELSE kth(stops, 1) - 1)

splitWhitespace(s) ==
    LET starts == {1} \cup {i + 1 : i \in {j \in 1..Len(s) :
                                  /\ s[j] \in Whitespace
                                  /\ (j = Len(s) \/ s[j + 1] \notin Whitespace)}}
    IN  [k \in 1..Cardinality(starts) |-> pieceFrom(s, kth(starts, k))]

(***************************************************************************)
(* getStem (src/App.tsx:32-39).                                             *)
(***************************************************************************)
\* The alternatives of the suffix regex, in the order of the source.
SUFFIXES == <<
    <<"i","ya","m","i">>, <<"ya","m","i">>, <<"i","ya","m">>, <<"ya","m">>,
    <<"i","ya","h">>, <<"ya","h">>,
    <<"o","v","a","ya">>, <<"o","v","o","e">>, <<"o","v","y","j">>,
    <<"o","ch","n","y","e">>, <<"o","ch","n","y","j">>,
    <<"o","v">>, <<"e","v">>, <<"i","j">>, <<"y","j">>, <<"a","ya">>,
    <<"o","e">>, <<"y","e">>, <<"i","e">>, <<"i","ya">>, <<"o","j">>,
    <<"e","j">>, <<"a","m">>, <<"o","m">>,
    <<"a">>, <<"i">>, <<"y">>, <<"e">>, <<"u">>, <<"yu">>, <<"q">>,
    <<"ya">>, <<"s">> >>

\* Does the regex /(alt1|alt2|...)$/ match s starting at position i?  Some
\* alternative has to cover the rest of the string up to its end.
suffixMatchesAt(s, i) ==
    \E k \in 1..Len(SUFFIXES) : SubSeq(s, i, Len(s)) = SUFFIXES[k]

\* The start positions at which the regex matches.
matchStarts(s) == {i \in 1..Len(s) : suffixMatchesAt(s, i)}

\* Mutant: the rightmost match is taken, so the shortest ending wins.
stripSuffixShortest(s) ==
    LET starts == matchStarts(s)
    IN  IF starts = {} THEN s
        ELSE SubSeq(s, 1, kth(starts, Cardinality(starts)) - 1)

\* s.replace(/(...)$/g, ''): the regex engine tries the start positions from
\* left to right and takes the first that matches; after this one match,
\* which ends at the end of the string, no further match is possible, every
\* alternative being non-empty.
stripSuffix(s) ==
    LET starts == matchStarts(s)
    IN  IF starts = {} THEN s ELSE SubSeq(s, 1, kth(starts, 1) - 1)

\* The token as getStem sees it before the suffix regex.
normalizeToken(w) == stripPunctuation(trim(toLowerCase(w)))

getStem(w) == stripSuffix(normalizeToken(w))

(***************************************************************************)
(* JavaScript Map as a sequence of [key, val] records in insertion order.   *)
(***************************************************************************)
mapHas(m, k) == \E i \in 1..Len(m) : m[i].key = k

\* m.get(k) of a key that is present
mapGet(m, k) == m[CHOOSE i \in 1..Len(m) : m[i].key = k].val

mapGetOr(m, k, default) == IF mapHas(m, k) THEN mapGet(m, k) ELSE default

mapKeys(m) == [i \in 1..Len(m) |-> m[i].key]

\* new Set(arr): the distinct elements in order of first occurrence
uniqueInOrder(s) ==
    pick(s, {i \in 1..Len(s) : \A j \in 1..(i - 1) : s[j] # s[i]})

\* const arr = m.get(k); if (arr) arr.push(v); else m.set(k, [v]);
\* (the idiom of lines 51-53, 62-64 and 101-105) for k = keys[i], v = vals[i],
\* i = 1, 2, ..., from the empty Map: a Map keeps its keys in the order they
\* were first set, and each array its values in the order they were pushed.
pushIndex(keys, vals) ==
    LET ks == uniqueInOrder(keys)
    IN  [k \in 1..Len(ks) |->
            [key |-> ks[k],
             val |-> pick(vals, {i \in 1..Len(keys) : keys[i] = ks[k]})]]

\* The concatenation of f[lo], ..., f[hi]
RECURSIVE flatten(_, _, _)
flatten(f, lo, hi) ==
    IF lo > hi THEN <<>>
    ELSE IF lo = hi THEN f[lo]
    ELSE LET mid == (lo + hi) \div 2
         IN  flatten(f, lo, mid) \o flatten(f, mid + 1, hi)

(***************************************************************************)
(* Synonym index (src/App.tsx:42-68).                                       *)
(***************************************************************************)
\* terms.forEach((term) => ...) for one entry of SYNONYMS, lines 47-54: the
\* pushes it makes, as [key, val] pairs in the order they are made
termPostings(entry) ==
    LET stems == [t \in 1..Len(entry.terms) |->
                     getStem(trim(toLowerCase(entry.terms[t])))]
        kept == SelectSeq(stems, LAMBDA st : Len(st) >= 2)
    IN  [t \in 1..Len(kept) |-> [key |-> kept[t], val |-> entry.prefix]]

\* Object.entries(SYNONYMS).forEach(...), lines 46-55
buildStemToPrefixes(synonyms) ==
    LET posts == flatten([e \in 1..Len(synonyms) |-> termPostings(synonyms[e])],
                         1, Len(synonyms))
    IN  pushIndex([k \in 1..Len(posts) |-> posts[k].key],
                 [k \in 1..Len(posts) |-> posts[k].val])

\* Mutant: the loop of lines 58-65 runs over the alias terms, not over the
\* keys of the Map, so a stem is pushed once per alias that reduces to it.
buildStemPrefixIndexPerTerm(s2p) ==
    LET stems == flatten([k \in 1..Len(s2p) |->
                             [j \in 1..Len(s2p[k].val) |-> s2p[k].key]],
                         1, Len(s2p))
    IN  pushIndex([k \in 1..Len(stems) |-> slice(stems[k], 3)], stems)

\* for (const stem of stemToPrefixes.keys()) ..., lines 58-65
buildStemPrefixIndex(s2p) ==
    LET stems == SelectSeq(mapKeys(s2p), LAMBDA st : Len(slice(st, 3)) >= 2)
    IN  pushIndex([k \in 1..Len(stems) |-> slice(stems[k], 3)], stems)

(***************************************************************************)
(* Catalog index (src/App.tsx:78-120).                                      *)
(***************************************************************************)
\* _titleLower.split(/\s+/).map(getStem).filter(s => s.length >= 2), lines 82-85
titleStems(titleLower) ==
    LET ws == splitWhitespace(titleLower)
    IN  SelectSeq([i \in 1..Len(ws) |-> getStem(ws[i])], LAMBDA s : Len(s) >= 2)

\* TNVED_DB.map((item) => ...), lines 79-95
indexItem(item) ==
    [code        |-> item.code,
     name        |-> item.name,
     description |-> item.description,
     _titleLower |-> toLowerCase(item.name),
     _descLower  |-> toLowerCase(item.description),
     _titleStems |-> titleStems(toLowerCase(item.name)),
     _code2      |-> slice(item.code, 2),
     _code4      |-> slice(item.code, 4)]

\* Mutant: the title stems are indexed without the Set, line 112.
titleStemKeysNoSet(it) == SelectSeq(it._titleStems, LAMBDA s : Len(s) >= 3)

\* The keys under which one item is posted in byStem, lines 112-116
titleStemKeys(it) == SelectSeq(uniqueInOrder(it._titleStems), LAMBDA s : Len(s) >= 3)

\* The pushIndex(byStem, s, idx) calls of one item, lines 113-116, as
\* [key, idx] pairs in the order they are made
stemPostings(items, idx) ==
    LET keys == titleStemKeys(items[idx])
    IN  [k \in 1..Len(keys) |-> [key |-> keys[k], idx |-> idx]]

\* items.forEach((it, idx) => ...), lines 107-117: every item is pushed to
\* byPrefix2 and byPrefix4 under its code prefixes and to byStem under each of
\* its distinct title stems of three characters or more.
buildSearchIndex(db) ==
    LET items == [i \in 1..Len(db) |-> indexItem(db[i])]
        ids == [i \in 1..Len(items) |-> i]
        posts == flatten([i \in 1..Len(items) |-> stemPostings(items, i)],
                         1, Len(items))
    IN  [items |-> items,
         byPrefix2 |-> pushIndex([i \in 1..Len(items) |-> items[i]._code2], ids),
         byPrefix4 |-> pushIndex([i \in 1..Len(items) |-> items[i]._code4], ids),
         byStem |-> pushIndex([k \in 1..Len(posts) |-> posts[k].key],
                             [k \in 1..Len(posts) |-> posts[k].idx])]

(***************************************************************************)
(* handleSearchLocal (src/App.tsx:162-298).                                 *)
(***************************************************************************)
STOP_WORDS == {
    <<"d","l","ya">>, <<"i","z">>, <<"p","o","d">>, <<"n","a","d">>,
    <<"b","e","z">>, <<"p","r","i">>, <<"v","s","e">>, <<"eh","t","i">>,
    <<"eh","t","o","t">>, <<"k","a","k","o","j">>, <<"t","a","k","o","j">>,
    <<"s","v","e","r","h","u">>, <<"s","n","i","z","u">>,
    <<"v","n","u","t","r","i">>, <<"k","o","m","p","l","e","k","t">>,
    <<"n","a","b","o","r">>, <<"sh","t">>, <<"k","g">>, <<"s">>, <<"i">>,
    <<"v">>, <<"n","a">>, <<"b","y","v","sh","i","j">>, <<"n","o","v","y","e">>,
    <<"p","r","o","ch","i","e">>, <<"p","r","o","ch","a","ya">>,
    <<"v","k","l","yu","ch","a","ya">>, <<"k","r","o","m","e">>,
    <<"i","s","p","o","l","q","z","o","v","a","n","i","ya">>,
    <<"p","r","e","d","n","a","z","n","a","ch","e","n","n","y","j">> }

MaxResults == 30
ScanCap == 3000
BaseWeight == 2000
SingleTermFloor == 800
TitleWeightPrimary == 4000
TitleWeightOther == 1500
DescWeight == 100

\* Mutant: the stop-word test of line 169 is left out.
queryWordsKeepStopWords(trimmed) ==
    LET ws == splitWhitespace(trimmed)
    IN  SelectSeq([i \in 1..Len(ws) |-> trim(ws[i])], LAMBDA w : Len(w) >= 2)

\* Mutant: the filter of line 169 lets the first token through untested.
queryWordsKeepFirst(trimmed) ==
    LET ws == splitWhitespace(trimmed)
        ts == [i \in 1..Len(ws) |-> trim(ws[i])]
        kept == {i \in 1..Len(ws) :
                    i = 1 \/ (Len(ts[i]) >= 2 /\ ts[i] \notin STOP_WORDS)}
    IN  pick(ts, kept)

\* trimmed.split(/\s+/).map(trim).filter(...), lines 166-169
queryWordsOf(trimmed) ==
    LET ws == splitWhitespace(trimmed)
    IN  SelectSeq([i \in 1..Len(ws) |-> trim(ws[i])],
                  LAMBDA w : Len(w) >= 2 /\ w \notin STOP_WORDS)

\* queryWords.map(getStem).filter(s => s.length >= 2), line 173
queryStemsOf(words) ==
    SelectSeq([i \in 1..Len(words) |-> getStem(words[i])], LAMBDA s : Len(s) >= 2)

\* Mutant: the importance of line 183 is 1.0 for the first stem too.
prefixWeightFlat(qIdx, exact) ==
    (BaseWeight * 10 * (IF exact THEN 12 ELSE 8)) \div 100

\* 2000 * importance * matchQuality with importance 2.5 or 1.0 and matchQuality
\* 1.2 or 0.8, in tenths; the four products are integers in IEEE doubles too.
prefixWeight(qIdx, exact) ==
    (BaseWeight * (IF qIdx = 1 THEN 25 ELSE 10) * (IF exact THEN 12 ELSE 8)) \div 100

\* The sum of f[lo], ..., f[hi]
RECURSIVE sum(_, _, _)
sum(f, lo, hi) ==
    IF lo > hi THEN 0
    ELSE IF lo = hi THEN f[lo]
    ELSE LET mid == (lo + hi) \div 2
         IN  sum(f, lo, mid) + sum(f, mid + 1, hi)

\* for (const prefix of prefixes) addPrefixWeight(prefix, weight): the calls,
\* as [key, val] pairs in the order they are made
prefixWeightCalls(prefixes, weight) ==
    [k \in 1..Len(prefixes) |-> [key |-> prefixes[k], val |-> weight]]

\* Mutant: a bucket match has the match quality of an exact hit.
bucketStemCallsFullQuality(mapStem, qStem, qIdx) ==
    IF (includes(qStem, mapStem) \/ includes(mapStem, qStem))
       /\ mapHas(stemToPrefixes, mapStem)
    THEN prefixWeightCalls(mapGet(stemToPrefixes, mapStem), prefixWeight(qIdx, TRUE))
    ELSE <<>>

\* The body of for (const mapStem of bucket) for one mapStem, lines 194-200
bucketStemCalls(mapStem, qStem, qIdx) ==
    IF (includes(qStem, mapStem) \/ includes(mapStem, qStem))
       /\ mapHas(stemToPrefixes, mapStem)
    THEN prefixWeightCalls(mapGet(stemToPrefixes, mapStem),
                           prefixWeight(qIdx, mapStem = qStem))
    ELSE <<>>

\* The bucket lookup for one stem, lines 191-201
bucketCalls(qStem, qIdx) ==
    LET bucket == mapGetOr(stemPrefixIndex, slice(qStem, 3), <<>>)
    IN  flatten([k \in 1..Len(bucket) |-> bucketStemCalls(bucket[k], qStem, qIdx)],
                1, Len(bucket))

\* Mutant: the direct hit of lines 186-189 has no return, so the bucket
\* lookup follows it.
stemWeightCallsNoReturn(qStem, qIdx) ==
    (IF mapHas(stemToPrefixes, qStem)
     THEN prefixWeightCalls(mapGet(stemToPrefixes, qStem), prefixWeight(qIdx, TRUE))
     ELSE <<>>)
    \o bucketCalls(qStem, qIdx)

\* The body of queryStems.forEach for one stem, lines 183-201
stemWeightCalls(qStem, qIdx) ==
    IF mapHas(stemToPrefixes, qStem)
    THEN prefixWeightCalls(mapGet(stemToPrefixes, qStem), prefixWeight(qIdx, TRUE))
    ELSE bucketCalls(qStem, qIdx)

\* addPrefixWeight, lines 178-180, applied to the calls in order from the
\* empty Map: a prefix is set at its first call and holds the sum of the
\* weights of its calls.
addPrefixWeight(calls) ==
    LET ks == uniqueInOrder([k \in 1..Len(calls) |-> calls[k].key])
    IN  [k \in 1..Len(ks) |->
            [key |-> ks[k],
             val |-> sum([i \in 1..Len(calls) |->
                             IF calls[i].key = ks[k] THEN calls[i].val ELSE 0],
                         1, Len(calls))]]

\* queryStems.forEach((qStem, qIdx) => ...), lines 182-202
codePrefixWeightsOf(queryStems) ==
    addPrefixWeight(flatten([q \in 1..Len(queryStems) |->
                                stemWeightCalls(queryStems[q], q)],
                            1, Len(queryStems)))

\* addCandidatesFromPrefix, lines 207-224: the postings it adds
addCandidatesFromPrefix(prefix) ==
    IF Len(prefix) = 2
    THEN mapGetOr(searchIndex.byPrefix2, prefix, <<>>)
    ELSE IF Len(prefix) = 4
    THEN mapGetOr(searchIndex.byPrefix4, prefix, <<>>)
    ELSE IF Len(slice(prefix, 4)) = 4
    THEN mapGetOr(searchIndex.byPrefix4, slice(prefix, 4), <<>>)
    ELSE <<>>

\* Mutant: candidates is an array and add is push.
addAllArray(arrs) == flatten(arrs, 1, Len(arrs))

\* arr.forEach((i) => candidates.add(i)) for every array in turn: a Set keeps
\* the order of first insertion
addAll(arrs) == uniqueInOrder(flatten(arrs, 1, Len(arrs)))

\* for (const prefix of codePrefixWeights.keys()) addCandidatesFromPrefix(prefix)
candidatesFromPrefixes(prefixes) ==
    addAll([k \in 1..Len(prefixes) |-> addCandidatesFromPrefix(prefixes[k])])

\* for (const s of queryStems) searchIndex.byStem.get(s)?.forEach(add), lines 229-232
candidatesFromStems(stems) ==
    addAll([k \in 1..Len(stems) |-> mapGetOr(searchIndex.byStem, stems[k], <<>>)])

\* Mutant: the scan of line 237 has no "i < 3000".
limitedScanNoCap == [i \in 1..Len(searchIndex.items) |-> i]

\* Mutant: the scan of line 237 runs while i <= items.length.
limitedScanPastEnd == [i \in 1..Min(Len(searchIndex.items) + 1, ScanCap) |-> i]

\* for (let i = 0; i < items.length && i < 3000; i++) candidates.add(i), line 237
limitedScan == [i \in 1..Min(Len(searchIndex.items), ScanCap) |-> i]

\* Mutant: the title-stem postings are read after the prefixes too.
candidatesOfPrefixAndTitle(cpw, queryStems) ==
    IF Len(cpw) > 0
    THEN addAll(<<candidatesFromPrefixes(mapKeys(cpw)), candidatesFromStems(queryStems)>>)
    ELSE LET byTitle == candidatesFromStems(queryStems)
         IN  IF Len(byTitle) = 0 THEN limitedScan ELSE byTitle

\* Step 2 of handleSearchLocal, lines 205-239
candidatesOf(cpw, queryStems) ==
    IF Len(cpw) > 0
    THEN candidatesFromPrefixes(mapKeys(cpw))
    ELSE LET byTitle == candidatesFromStems(queryStems)
         IN  IF Len(byTitle) = 0 THEN limitedScan ELSE byTitle

\* The test of one weighted prefix against one item, lines 254-263
prefixApplies(prefix, item) ==
    IF Len(prefix) = 2 THEN item._code2 = prefix
    ELSE IF Len(prefix) = 4 THEN item._code4 = prefix
    ELSE startsWith(item.code, prefix)

\* item._titleStems.some((ts) => ts.includes(qStem) || qStem.includes(ts)), line 274
titleMatches(item, qStem) ==
    \E k \in 1..Len(item._titleStems) :
        includes(item._titleStems[k], qStem) \/ includes(qStem, item._titleStems[k])

\* !wordFound && item._descLower.includes(qStem), line 280
descMatches(item, qStem) == includes(item._descLower, qStem)

\* codePrefixWeights.forEach((w, prefix) => { ... prefixScore += w }), lines 253-264
sumPrefixSignal(cpw, item) ==
    sum([k \in 1..Len(cpw) |->
            IF prefixApplies(cpw[k].key, item) THEN cpw[k].val ELSE 0],
        1, Len(cpw))

\* Mutant: the description test of line 280 has no "!wordFound".
sumTextSignalBoth(item, queryStems) ==
    sum([q \in 1..Len(queryStems) |->
            (IF titleMatches(item, queryStems[q])
             THEN (IF q = 1 THEN TitleWeightPrimary ELSE TitleWeightOther)
             ELSE 0)
            + (IF descMatches(item, queryStems[q]) THEN DescWeight ELSE 0)],
        1, Len(queryStems))

\* queryStems.forEach((qStem, qIdx) => ...), lines 272-285
sumTextSignal(item, queryStems) ==
    sum([q \in 1..Len(queryStems) |->
            IF titleMatches(item, queryStems[q])
            THEN (IF q = 1 THEN TitleWeightPrimary ELSE TitleWeightOther)
            ELSE IF descMatches(item, queryStems[q]) THEN DescWeight
            ELSE 0],
        1, Len(queryStems))

\* Mutant: the subject gate of line 289 is joined with || instead of &&.
isRelevantSubjectOrRule(subjectConfirmed, score, matchedStemsCount, nStems) ==
    subjectConfirmed
    \/ (IF nStems = 1 THEN score > SingleTermFloor
        ELSE 5 * matchedStemsCount >= 2 * nStems)

\* Mutant: the multi-stem branch of line 289 asks for any match at all.
isRelevantAnyMatch(subjectConfirmed, score, matchedStemsCount, nStems) ==
    subjectConfirmed
    /\ (IF nStems = 1 THEN score > SingleTermFloor ELSE matchedStemsCount >= 0)

\* Mutant: the single-stem branch of line 289 keeps every scored candidate.
isRelevantNoFloor(subjectConfirmed, score, matchedStemsCount, nStems) ==
    IF nStems = 1 THEN score > 0
    ELSE subjectConfirmed /\ 5 * matchedStemsCount >= 2 * nStems

\* Mutant: the multi-stem branch of line 289 wants every stem matched.
isRelevantAllStems(subjectConfirmed, score, matchedStemsCount, nStems) ==
    subjectConfirmed
    /\ (IF nStems = 1 THEN score > SingleTermFloor ELSE matchedStemsCount >= nStems)

\* isRelevant, lines 288-289; matchedStemsCount / n >= 0.4 is 5 * count >= 2 * n
isRelevant(subjectConfirmed, score, matchedStemsCount, nStems) ==
    subjectConfirmed
    /\ (IF nStems = 1 THEN score > SingleTermFloor
        ELSE 5 * matchedStemsCount >= 2 * nStems)

\* The body of "for (const idx of candidates)", lines 245-292
scoreCandidate(idx, cpw, queryStems) ==
    LET item == searchIndex.items[idx]
        byPrefix == \E i \in 1..Len(cpw) : prefixApplies(cpw[i].key, item)
        byTitle == \E q \in 1..Len(queryStems) : titleMatches(item, queryStems[q])
        matched == Cardinality({q \in 1..Len(queryStems) :
                       titleMatches(item, queryStems[q])
                       \/ descMatches(item, queryStems[q])})
        score == sumPrefixSignal(cpw, item) + sumTextSignal(item, queryStems)
    IN  [idx |-> idx,
         score |-> score,
         subjectConfirmed |-> byPrefix \/ byTitle,
         matchedStemsCount |-> matched,
         isRelevant |-> isRelevant(byPrefix \/ byTitle, score, matched,
                                   Len(queryStems))]

\* Mutant: the comparator is (a, b) => a.score - b.score.
sortByScoreAscending(results) ==
    LET n == Len(results)
        before(i) == {j \in 1..n :
                        \/ results[j].score < results[i].score
                        \/ results[j].score = results[i].score /\ j < i}
    IN  [k \in 1..n |-> results[CHOOSE i \in 1..n : Cardinality(before(i)) = k - 1]]

\* results.sort((a, b) => b.score - a.score), line 295.  Array.prototype.sort
\* is stable: an entry comes after the entries the comparator puts before it
\* (the higher scores) and after the earlier entries it ties with.
sortByScore(results) ==
    LET n == Len(results)
        before(i) == {j \in 1..n :
                        \/ results[j].score > results[i].score
                        \/ results[j].score = results[i].score /\ j < i}
    IN  [k \in 1..n |-> results[CHOOSE i \in 1..n : Cardinality(before(i)) = k - 1]]

\* Mutant: the slice of line 297 is left out.
sliceAll(sorted) == sorted

\* .slice(0, 30), line 297
sliceResults(sorted) == SubSeq(sorted, 1, Min(MaxResults, Len(sorted)))

\* Mutant: the list is cut to 30 before it is sorted.
rankSliceThenSort(results) == sortByScore(sliceResults(results))

\* Mutant: the results array of line 242 is declared outside the handler and
\* still holds what the call before pushed.
rankKeepingResults(results) ==
    sliceResults(sortByScore(
        SelectSeq(lastSearch.scored, LAMBDA r : r.isRelevant) \o results))

\* results.sort(...).map((r) => r.item).slice(0, 30), lines 294-297
rank(results) == sliceResults(sortByScore(results))

noSearch ==
    [called |-> FALSE, threw |-> FALSE, query |-> <<>>, returnLine |-> 0,
     queryWords |-> <<>>,
     queryStems |-> <<>>, codePrefixWeights |-> <<>>, candidates |-> <<>>,
     scored |-> <<>>, returned |-> <<>>, items |-> <<>>]

earlyReturn(q, line, words) ==
    [noSearch EXCEPT !.called = TRUE, !.query = q, !.returnLine = line,
                     !.queryWords = words]

\* const item = searchIndex.items[idx] of line 246 is undefined for an idx that
\* is no position of items, and the read of item._code2 or item._titleStems
\* that follows throws a TypeError.
readsUndefinedItem(candidates) ==
    \E i \in 1..Len(candidates) : candidates[i] \notin 1..Len(searchIndex.items)

\* The whole of handleSearchLocal; returnLine is the line of the return
\* statement taken (0 when the call threw), the indexes being first read at
\* line 185.
handleSearchLocal(q) ==
    LET trimmed == toLowerCase(trim(q))
        queryWords == queryWordsOf(trimmed)
        queryStems == queryStemsOf(queryWords)
        cpw == codePrefixWeightsOf(queryStems)
        candidates == candidatesOf(cpw, queryStems)
        scored == [i \in 1..Len(candidates) |->
                      scoreCandidate(candidates[i], cpw, queryStems)]
        ranked == rank(SelectSeq(scored, LAMBDA r : r.isRelevant))
    IN  IF Len(trimmed) < 2 THEN earlyReturn(q, 164, <<>>)
        ELSE IF Len(queryWords) = 0 THEN earlyReturn(q, 171, <<>>)
        ELSE IF Len(queryStems) = 0 THEN earlyReturn(q, 174, queryWords)
        ELSE IF readsUndefinedItem(candidates)
        THEN [earlyReturn(q, 0, queryWords) EXCEPT
                 !.threw = TRUE, !.queryStems = queryStems,
                 !.codePrefixWeights = cpw, !.candidates = candidates]
        ELSE [called |-> TRUE, threw |-> FALSE, query |-> q, returnLine |-> 294,
              queryWords |-> queryWords, queryStems |-> queryStems,
              codePrefixWeights |-> cpw, candidates |-> candidates,
              scored |-> scored,
              returned |-> [i \in 1..Len(ranked) |-> ranked[i].idx],
              items |-> [i \in 1..Len(ranked) |-> searchIndex.items[ranked[i].idx]]]

(***************************************************************************)
(* The static data.  data/tnved_db and data/search_maps are not part of the *)
(* sources at hand, so the catalog and the synonym map are inputs: Init     *)
(* draws them from the sets below.                                          *)
(***************************************************************************)
EntryPool == <<
    [code |-> <<"8","5","1","7","1","2">>,
     name |-> <<"S","m","a","r","t","f","o","n","y"," ","i"," ","t","e","l","e","f","o","n","y">>,
     description |-> <<"a","p","p","a","r","a","t","y"," ","t","e","l","e","f","o","n","n","y","e"," ","d","l","ya"," ","s","o","t","o","v","o","j"," ","s","v","ya","z","i">>],
    [code |-> <<"8","5","1","7","7","0">>,
     name |-> <<"CH","a","s","t","i"," ","i"," ","z","a","p","a","s","n","y","e"," ","ch","a","s","t","i"," ","t","e","l","e","f","o","n","o","v">>,
     description |-> <<"ch","a","s","t","i"," ","a","p","p","a","r","a","t","o","v">>],
    [code |-> <<"8","4","7","1","3","0">>,
     name |-> <<"N","o","u","t","b","u","k","i"," ","p","o","r","t","a","t","i","v","n","y","e">>,
     description |-> <<"m","a","sh","i","n","y"," ","v","y","ch","i","s","l","i","t","e","l","q","n","y","e">>],
    [code |-> <<"8","5","0","4","4","0">>,
     name |-> <<"Z","a","r","ya","d","n","y","e"," ","u","s","t","r","o","j","s","t","v","a">>,
     description |-> <<"d","l","ya"," ","t","e","l","e","f","o","n","o","v"," ","i"," ","n","o","u","t","b","u","k","o","v">>],
    [code |-> <<"6","1","0","9","1","0">>,
     name |-> <<"F","u","t","b","o","l","k","i"," "," ","m","a","j","k","i">>,
     description |-> <<"o","d","e","zh","d","a"," ","t","r","i","k","o","t","a","zh","n","a","ya">>],
    [code |-> <<"6","1","0","9","1","0">>,
     name |-> <<"M","a","j","k","i"," ","x","l">>,
     description |-> <<"o","d","e","zh","d","a">>],
    [code |-> <<"8","4","7","1","5","0">>,
     name |-> <<"N","o","u","t","b","u","k","i"," ","s","e","r","v","e","r","n","y","e">>,
     description |-> <<"s","e","r","v","e","r","y">>] >>

SynonymPool == <<
    [prefix |-> <<"6","1">>,
     terms |-> <<<<"o","d","e","zh","d","a">>>>],
    [prefix |-> <<"8","5">>,
     terms |-> <<<<"t","e","l","e","f","o","n">>,
                 <<"t","e","l","e","f","o","n","y">>,
                 <<"eh","l","e","k","t","r","o","n","i","k","a">>,
                 <<"t","e","l","e","v","i","z","o","r">>>>],
    [prefix |-> <<"8","5","1">>,
     terms |-> <<<<"g","a","d","zh","e","t">>>>],
    [prefix |-> <<"8","5","1","7">>,
     terms |-> <<<<"s","m","a","r","t","f","o","n">>,
                 <<"T","e","l","e","f","o","n">>,
                 <<"m","o","b","i","l","q","n","y","j"," ","t","e","l","e","f","o","n">>,
                 <<"ya">>>>],
    [prefix |-> <<"8","4","7","1","3","0">>,
     terms |-> <<<<"n","o","u","t","b","u","k">>,
                 <<"p","k">>>>] >>

HeadWords == {
    <<"s","m","a","r","t","f","o","n">>,
    <<"T","e","l","e","f","o","n","y",",">>,
    <<"n","o","u","t","b","u","k">>,
    <<"d","l","ya">>,
    <<"f","u","t","b","o","l","k","i">>,
    <<"t","r","i","k","o","t","a","zh">>,
    <<"t","e","l","e","f">>,
    <<"ya",".">>,
    <<"g","a","d","zh","e","t">>,
    <<"ch","a","s","t","ya","m","i">>,
    <<"m","o","b","i","l","q","n","y","j">>,
    <<"8","7","0","3">>,
    <<"o","d","e","zh","d","a">>,
    <<"p","k">>,
    <<"?","!">> }

TailWords == {
    <<"t","e","l","e","f","o","n">>,
    <<"n","o","u","t","b","u","k">>,
    <<"d","l","ya">>,
    <<"t","r","i","k","o","t","a","zh">> }

\* The pool entries with a code under chapter 85, which fill a large catalog.
Chapter85 == <<1, 2, 4>>

\* A catalog of n entries: the pool, then entries of chapter 85.
Catalog(n) ==
    [i \in 1..n |->
        IF i <= Len(EntryPool) THEN EntryPool[i]
        ELSE EntryPool[Chapter85[(i % Len(Chapter85)) + 1]]]

Catalogs == {Catalog(n) : n \in {0, Len(EntryPool), MaxCatalog}}

SynonymMaps == {<<>>, SynonymPool}

\* The word sequences of at most n words: a head word, then tail words.
RECURSIVE TailSeqs(_)
TailSeqs(n) ==
    IF n = 0 THEN {<<>>}
    ELSE LET shorter == TailSeqs(n - 1)
         IN  shorter \cup {Append(ws, w) : ws \in shorter, w \in TailWords}

WordSeqs ==
    {<<>>} \cup {<<h>> \o ts : h \in HeadWords, ts \in TailSeqs(MaxQueryWords - 1)}

RECURSIVE joinWords(_, _)
joinWords(ws, sep) ==
    IF ws = <<>> THEN <<>>
    ELSE IF Len(ws) = 1 THEN ws[1]
    ELSE ws[1] \o sep \o joinWords(Tail(ws), sep)

\* What the user can type: the words joined by one blank, and the shorter
\* ones also with padding and with runs of mixed whitespace between them.
Queries ==
    {joinWords(ws, <<" ">>) : ws \in WordSeqs}
    \cup {<<" ">> \o joinWords(ws, <<" ", "\t">>) \o <<"\t", " ">> :
             ws \in {x \in WordSeqs : Len(x) <= 2}}

\* The characters of the tokens getStem is tried on: letters of nested
\* endings, a letter of no ending, a capital, punctuation and a blank.
TokenChars == {"i", "ya", "m", "t", "T", ".", " "}

RECURSIVE Tokens(_)
Tokens(n) ==
    IF n = 0 THEN {<<>>}
    ELSE LET shorter == Tokens(n - 1)
         IN  shorter \cup {Append(t, c) : t \in shorter, c \in TokenChars}

noStem == [called |-> FALSE, word |-> <<>>, normalized |-> <<>>, result |-> <<>>]

(***************************************************************************)
(* The search engine: the indexes are built once (useMemo with no           *)
(* dependencies), then handleSearchLocal is called on the query.            *)
(***************************************************************************)
\* The useState initial values, lines 17-22 (and 526-531), with no timer set
uiInit ==
    /\ searchQuery = <<>>
    /\ isSearching = FALSE
    /\ searchResults = <<>>
    /\ hasSearched = FALSE
    /\ timers = <<>>
    /\ cleared = <<>>

Init ==
    /\ TNVED_DB \in Catalogs
    /\ SYNONYMS \in SynonymMaps
    /\ stemToPrefixes = buildStemToPrefixes(SYNONYMS)
    /\ stemPrefixIndex = buildStemPrefixIndex(stemToPrefixes)
    /\ searchIndex = buildSearchIndex(TNVED_DB)
    /\ query \in Queries
    /\ lastSearch = noSearch
    /\ callCount = 0
    /\ word = <<>>
    /\ lastStem = noStem
    /\ uiInit

\* Mutant: the handler memoizes a bucket match, setting the query stem as a
\* key of stemToPrefixes.
SearchMemoizing ==
    /\ callCount < MaxCalls
    /\ lastSearch' = handleSearchLocal(query)
    /\ callCount' = callCount + 1
    /\ stemToPrefixes' =
           LET r == handleSearchLocal(query)
           IN  IF r.codePrefixWeights # <<>> /\ ~mapHas(stemToPrefixes, r.queryStems[1])
               THEN Append(stemToPrefixes,
                           [key |-> r.queryStems[1],
                            val |-> mapKeys(r.codePrefixWeights)])
               ELSE stemToPrefixes
    /\ UNCHANGED <<TNVED_DB, SYNONYMS, stemPrefixIndex, searchIndex, query, word,
                   lastStem, ui>>

\* A call of handleSearchLocal; the same query can be searched again.
Search ==
    /\ callCount < MaxCalls
    /\ lastSearch' = handleSearchLocal(query)
    /\ callCount' = callCount + 1
    /\ UNCHANGED <<TNVED_DB, SYNONYMS, stemToPrefixes, stemPrefixIndex,
                   searchIndex, query, word, lastStem, ui>>

Next == Search

Spec == Init /\ [][Next]_vars

(***************************************************************************)
(* The search engine on catalogs around the size at which the capped scan   *)
(* of line 237 stops, next to the catalogs of Init.                         *)
(***************************************************************************)
\* A catalog of n entries that no alias and no title stem of ScanQueries
\* leads to; codes need not be unique.
ScanCatalog(n) == [i \in 1..n |-> EntryPool[3]]

ScanCatalogs == {ScanCatalog(n) : n \in (ScanCap - 1)..(ScanCap + 1)}

\* "8703", which is nowhere in the catalog, and "машины", which is in the
\* descriptions only.
ScanQueries == {<<"8","7","0","3">>, <<"m","a","sh","i","n","y">>}

ScanInit ==
    /\ TNVED_DB \in ScanCatalogs
    /\ SYNONYMS \in SynonymMaps
    /\ stemToPrefixes = buildStemToPrefixes(SYNONYMS)
    /\ stemPrefixIndex = buildStemPrefixIndex(stemToPrefixes)
    /\ searchIndex = buildSearchIndex(TNVED_DB)
    /\ query \in ScanQueries
    /\ lastSearch = noSearch
    /\ callCount = 0
    /\ word = <<>>
    /\ lastStem = noStem
    /\ uiInit

ScanSpec == (Init \/ ScanInit) /\ [][Next]_vars

(***************************************************************************)
(* getStem on its own: Init draws the token, the action applies getStem.    *)
(***************************************************************************)
StemInit ==
    /\ TNVED_DB = <<>>
    /\ SYNONYMS = <<>>
    /\ stemToPrefixes = buildStemToPrefixes(SYNONYMS)
    /\ stemPrefixIndex = buildStemPrefixIndex(stemToPrefixes)
    /\ searchIndex = buildSearchIndex(TNVED_DB)
    /\ query = <<>>
    /\ lastSearch = noSearch
    /\ callCount = 0
    /\ word \in Tokens(MaxWordLen)
    /\ lastStem = noStem
    /\ uiInit

Stem ==
    /\ ~lastStem.called
    /\ lastStem' = [called |-> TRUE, word |-> word,
                    normalized |-> normalizeToken(word), result |-> getStem(word)]
    /\ UNCHANGED <<TNVED_DB, SYNONYMS, stemToPrefixes, stemPrefixIndex,
                   searchIndex, query, lastSearch, callCount, word, ui>>

StemNext == Stem

StemSpec == StemInit /\ [][StemNext]_vars

(***************************************************************************)
(* The form-driven App, lines 1-508: the search field, the submit button,   *)
(* the suggestion links of the "nothing found" hint and the 300 ms timer.   *)
(***************************************************************************)
\* What is typed into the search field: nothing, a blank, queries with and
\* without results.
FormInputs == {
    <<>>,
    <<" ">>,
    <<"s","m","a","r","t","f","o","n">>,
    <<"n","o","u","t","b","u","k">>,
    <<"8","7","0","3">> }

\* The queries of the three suggestion links, line 424
Suggestions == {
    <<"o","d","e","zh","d","a">>,
    <<"m","ya","s","o">>,
    <<"s","m","a","r","t","f","o","n">> }

FormCatalogs == {Catalog(0), Catalog(Len(EntryPool))}

FormInit ==
    /\ TNVED_DB \in FormCatalogs
    /\ SYNONYMS \in SynonymMaps
    /\ stemToPrefixes = buildStemToPrefixes(SYNONYMS)
    /\ stemPrefixIndex = buildStemPrefixIndex(stemToPrefixes)
    /\ searchIndex = buildSearchIndex(TNVED_DB)
    /\ query = <<>>
    /\ lastSearch = noSearch
    /\ callCount = 0
    /\ word = <<>>
    /\ lastStem = noStem
    /\ uiInit

\* Mutant: line 302, setSearchResults([]), is left out.
triggerSearchKeepResults(q) ==
    /\ isSearching' = TRUE
    /\ searchResults' = searchResults
    /\ hasSearched' = FALSE
    /\ timers' = Append(timers, q)

\* triggerSearch, lines 300-315: the three setters and setTimeout(..., 300)
triggerSearch(q) ==
    /\ isSearching' = TRUE
    /\ searchResults' = <<>>
    /\ hasSearched' = FALSE
    /\ timers' = Append(timers, q)

\* showNoResultsHint, line 334
showNoResultsHint == hasSearched /\ ~isSearching /\ Len(searchResults) = 0

\* onChange of the search field, line 407
onChange ==
    \E v \in FormInputs :
        /\ v # searchQuery
        /\ searchQuery' = v
        /\ UNCHANGED <<data, query, lastSearch, callCount, word, lastStem,
                       isSearching, searchResults, hasSearched, timers, cleared>>

\* Mutant: the submit button of line 410 is not disabled while searching.
handleSearchClickAnyTime ==
    /\ Len(timers) < 2
    /\ trim(searchQuery) # <<>>
    /\ triggerSearch(searchQuery)
    /\ UNCHANGED <<data, query, lastSearch, callCount, word, lastStem, searchQuery,
                   cleared>>

\* handleSearchClick, lines 317-321, the onSubmit of the form of line 403; the
\* submit button is disabled while isSearching (line 410), and a form whose
\* submit button is disabled is not submitted by Enter either.
handleSearchClick ==
    /\ ~isSearching
    /\ IF trim(searchQuery) = <<>>
       THEN UNCHANGED <<searchQuery, isSearching, searchResults, hasSearched, timers>>
       ELSE triggerSearch(searchQuery) /\ UNCHANGED searchQuery
    /\ UNCHANGED <<data, query, lastSearch, callCount, word, lastStem, cleared>>

\* onClick of a suggestion link, line 424; the links are rendered under
\* showNoResultsHint (line 412)
suggestionClick ==
    \E s \in Suggestions :
        /\ showNoResultsHint
        /\ searchQuery' = s
        /\ triggerSearch(s)
        /\ UNCHANGED <<data, query, lastSearch, callCount, word, lastStem, cleared>>

\* Mutant: line 308, setIsSearching(false), is left out.
searchTimeoutKeepsLoading ==
    /\ timers # <<>>
    /\ lastSearch' = handleSearchLocal(Head(timers))
    /\ timers' = Tail(timers)
    /\ IF lastSearch'.threw
       THEN UNCHANGED <<searchResults, isSearching, hasSearched>>
       ELSE /\ searchResults' = lastSearch'.items
            /\ isSearching' = isSearching
            /\ hasSearched' = TRUE
    /\ UNCHANGED <<data, query, callCount, word, lastStem, searchQuery, cleared>>

\* The callback of setTimeout, lines 305-314, for the oldest pending timer
\* (timers of one delay fire in the order they were set); an exception in
\* handleSearchLocal ends the callback before the setters.
searchTimeout ==
    /\ timers # <<>>
    /\ lastSearch' = handleSearchLocal(Head(timers))
    /\ timers' = Tail(timers)
    /\ IF lastSearch'.threw
       THEN UNCHANGED <<searchResults, isSearching, hasSearched>>
       ELSE /\ searchResults' = lastSearch'.items
            /\ isSearching' = FALSE
            /\ hasSearched' = TRUE
    /\ UNCHANGED <<data, query, callCount, word, lastStem, searchQuery, cleared>>

FormNext == onChange \/ handleSearchClick \/ suggestionClick \/ searchTimeout

FormSpec == FormInit /\ [][FormNext]_vars

\* The oldest pending timer goes off: of the steps of FormNext, the steps of
\* searchTimeout and no others.
timerGoesOff == timers # <<>> /\ timers' = Tail(timers)

\* The browser runs the callback of a pending timer.
FormLiveSpec == FormSpec /\ WF_timers(timerGoesOff)

(***************************************************************************)
(* The debounced App, lines 509-818: the effect on searchQuery filters and  *)
(* sorts the catalog in a 300 ms timer that its cleanup cancels.            *)
(***************************************************************************)
\* The stop words of the debounced App, lines 519-523
STOP_WORDS_DEBOUNCED == {
    <<"d","l","ya">>, <<"i","z">>, <<"p","o","d">>, <<"n","a","d">>,
    <<"b","e","z">>, <<"p","r","i">>, <<"v","s","e">>, <<"eh","t","i">>,
    <<"eh","t","o","t">>, <<"k","a","k","o","j">>, <<"t","a","k","o","j">>,
    <<"s","v","e","r","h","u">>, <<"s","n","i","z","u">>,
    <<"v","n","u","t","r","i">>, <<"k","o","m","p","l","e","k","t">>,
    <<"n","a","b","o","r">>, <<"sh","t">>, <<"k","g">>, <<"s">>, <<"i">>,
    <<"v">>, <<"n","a">>, <<"p","r","o","ch","i","e">>, <<"k","r","o","m","e">>,
    <<"t","o","m">>, <<"ch","i","s","l","e">> }

\* The characters of /[\s,.-]+/, line 564
TokenSeparators == Whitespace \cup {",", ".", "-"}

\* rawQuery.split(/[\s,.-]+/), line 564, without the empty pieces a leading
\* or trailing separator leaves, which the filter of line 565 drops: the
\* maximal runs of characters that are no separators
splitTokens(s) ==
    LET starts == {i \in 1..Len(s) :
                      /\ s[i] \notin TokenSeparators
                      /\ (i = 1 \/ s[i - 1] \in TokenSeparators)}
        runFrom(p) ==
            LET stops == {q \in p..Len(s) : s[q] \in TokenSeparators}
            IN  SubSeq(s, p, IF stops = {} THEN Len(s) ELSE kth(stops, 1) - 1)
    IN  [k \in 1..Cardinality(starts) |-> runFrom(kth(starts, k))]

\* searchQuery.toLowerCase().trim(), line 562
rawQueryOf(q) == trim(toLowerCase(q))

\* queryTokens, lines 563-565
queryTokensOf(rawQuery) ==
    SelectSeq(splitTokens(rawQuery),
              LAMBDA token : Len(token) > 1 /\ token \notin STOP_WORDS_DEBOUNCED)

\* SYNONYMS[code.substring(0, 4)] || [], lines 581-582 and 622-625
itemSynonyms(item) ==
    LET groupKey == slice(item.code, 4)
        at == {i \in 1..Len(SYNONYMS) : SYNONYMS[i].prefix = groupKey}
    IN  IF at = {} THEN <<>> ELSE SYNONYMS[CHOOSE i \in at : TRUE].terms

\* queryTokens.some(t => name.includes(t)), lines 609-610
nameHas(item, queryTokens) ==
    \E t \in 1..Len(queryTokens) : includes(toLowerCase(item.name), queryTokens[t])

\* queryTokens.some(t => syns.some(s => s.toLowerCase().includes(t))), lines 627-628
synHas(item, queryTokens) ==
    \E t \in 1..Len(queryTokens) :
        \E k \in 1..Len(itemSynonyms(item)) :
            includes(toLowerCase(itemSynonyms(item)[k]), queryTokens[t])

\* The callback of TNVED_DB.filter, lines 575-599
itemMatches(item, rawQuery, queryTokens) ==
    \E t \in 1..Len(queryTokens) :
        \/ startsWith(item.code, rawQuery)
        \/ includes(toLowerCase(item.name), queryTokens[t])
        \/ \E k \in 1..Len(itemSynonyms(item)) :
              includes(toLowerCase(itemSynonyms(item)[k]), queryTokens[t])
        \/ includes(toLowerCase(item.description), queryTokens[t])

\* The comparator of results.sort, lines 602-635: negative, zero or positive
compareItems(a, b, rawQuery, queryTokens) ==
    LET aName == toLowerCase(a.name)
        bName == toLowerCase(b.name)
        aNameHas == nameHas(a, queryTokens)
        bNameHas == nameHas(b, queryTokens)
        aSynHas == synHas(a, queryTokens)
        bSynHas == synHas(b, queryTokens)
    IN  IF aName = rawQuery /\ bName # rawQuery THEN -1
        ELSE IF bName = rawQuery /\ aName # rawQuery THEN 1
        ELSE IF aNameHas /\ ~bNameHas THEN -1
        ELSE IF ~aNameHas /\ bNameHas THEN 1
        ELSE IF aNameHas /\ bNameHas THEN Len(a.name) - Len(b.name)
        ELSE IF aSynHas /\ ~bSynHas THEN -1
        ELSE IF ~aSynHas /\ bSynHas THEN 1
        ELSE 0

\* results.sort(comparator), line 602: the comparator orders by exact name,
\* name match, then name length or synonym match, a total preorder, under
\* which the stable sort puts an entry behind the entries that compare before
\* it and behind the earlier entries it ties with.
sortItems(results, rawQuery, queryTokens) ==
    LET n == Len(results)
        before(i) ==
            {j \in 1..n :
                LET c == compareItems(results[j], results[i], rawQuery, queryTokens)
                IN  c < 0 \/ (c = 0 /\ j < i)}
        places == {[at |-> i, place |-> Cardinality(before(i)) + 1] : i \in 1..n}
    IN  [k \in 1..n |-> results[(CHOOSE p \in places : p.place = k).at]]

\* The cut of line 644
DebouncedMaxResults == 50

\* The callback of setTimeout up to the slice of line 644: filter, sort, cut
debouncedResults(rawQuery, queryTokens) ==
    LET results == SelectSeq(TNVED_DB,
                             LAMBDA item : itemMatches(item, rawQuery, queryTokens))
        sorted == sortItems(results, rawQuery, queryTokens)
    IN  SubSeq(sorted, 1, Min(DebouncedMaxResults, Len(sorted)))

\* What is typed into the search field: nothing, a blank, a word of titles, a
\* code prefix, stop words of one, two and three characters, two words around
\* a hyphen, a word of descriptions.
DebouncedInputs == {
    <<>>,
    <<" ">>,
    <<"t","e","l","e","f","o","n">>,
    <<"8","5">>,
    <<"v">>,
    <<"N","a">>,
    <<"d","l","ya">>,
    <<"N","o","u","t","b","u","k","-","p","k">>,
    <<"o","d","e","zh","d","a">> }

DebouncedCatalogs == {Catalog(0), Catalog(Len(EntryPool))}

\* The state after the first run of the effect, with searchQuery '' (lines 550-555)
DebouncedInit ==
    /\ TNVED_DB \in DebouncedCatalogs
    /\ SYNONYMS \in SynonymMaps
    /\ stemToPrefixes = buildStemToPrefixes(SYNONYMS)
    /\ stemPrefixIndex = buildStemPrefixIndex(stemToPrefixes)
    /\ searchIndex = buildSearchIndex(TNVED_DB)
    /\ query = <<>>
    /\ lastSearch = noSearch
    /\ callCount = 0
    /\ word = <<>>
    /\ lastStem = noStem
    /\ uiInit

\* Mutant: the effect returns no cleanup.
effectCleanupNone == <<>>

\* The cleanup of the effect run before, line 648: the timer its clearTimeout
\* cancels, which is the newest timer if that was set for the current
\* searchQuery and is still pending; an effect run that returned early (lines
\* 554, 570) has no cleanup, and clearTimeout of a timer that fired does nothing.
effectCleanup ==
    IF timers # <<>> /\ timers[Len(timers)].searchQuery = searchQuery
    THEN <<timers[Len(timers)]>>
    ELSE <<>>

\* setSearchQuery(v) with a new value, from the field's onChange (line 709)
\* or the clear button (line 713): the cleanup of the effect run before, then
\* the effect of lines 548-649 up to setTimeout.
setSearchQuery ==
    \E v \in DebouncedInputs :
        LET left == SubSeq(timers, 1, Len(timers) - Len(effectCleanup))
            rawQuery == rawQueryOf(v)
            queryTokens == queryTokensOf(rawQuery)
        IN  /\ v # searchQuery
            /\ searchQuery' = v
            /\ cleared' = effectCleanup
            /\ IF trim(v) = <<>>
               THEN /\ searchResults' = <<>>
                    /\ isSearching' = FALSE
                    /\ hasSearched' = FALSE
                    /\ timers' = left
               ELSE IF Len(queryTokens) = 0 /\ Len(rawQuery) < 3
               THEN /\ isSearching' = FALSE
                    /\ hasSearched' = TRUE
                    /\ timers' = left
                    /\ UNCHANGED searchResults
               ELSE /\ isSearching' = TRUE
                    /\ hasSearched' = TRUE
                    /\ timers' = Append(left, [searchQuery |-> v,
                                               rawQuery |-> rawQuery,
                                               queryTokens |-> queryTokens])
                    /\ UNCHANGED searchResults
            /\ UNCHANGED <<data, query, lastSearch, callCount, word, lastStem>>

\* The callback of setTimeout, lines 574-646, for the oldest pending timer
debouncedTimeout ==
    /\ timers # <<>>
    /\ searchResults' = debouncedResults(Head(timers).rawQuery, Head(timers).queryTokens)
    /\ isSearching' = FALSE
    /\ timers' = Tail(timers)
    /\ UNCHANGED <<data, query, lastSearch, callCount, word, lastStem,
                   searchQuery, hasSearched, cleared>>

DebouncedNext == setSearchQuery \/ debouncedTimeout

DebouncedSpec == DebouncedInit /\ [][DebouncedNext]_vars

(***************************************************************************)
(* Properties.                                                              *)
(***************************************************************************)
\* What the properties read of the last call.
Called == lastSearch.called

NStems == Len(lastSearch.queryStems)

Returned == {lastSearch.returned[i] : i \in 1..Len(lastSearch.returned)}

CandidateSet == {lastSearch.candidates[i] : i \in 1..Len(lastSearch.candidates)}

ScoredOf(idx) ==
    lastSearch.scored[CHOOSE i \in 1..Len(lastSearch.scored) :
                          lastSearch.scored[i].idx = idx]

RelevantSet == {idx \in CandidateSet : ScoredOf(idx).isRelevant}

CandidatePos(idx) ==
    CHOOSE i \in 1..Len(lastSearch.candidates) : lastSearch.candidates[i] = idx

WeightedPrefixes ==
    {lastSearch.codePrefixWeights[i].key : i \in 1..Len(lastSearch.codePrefixWeights)}

\* The entry's code begins with a weighted code prefix.
UnderWeightedPrefix(idx) ==
    \E p \in WeightedPrefixes : startsWith(TNVED_DB[idx].code, p)

\* One of the entry's title stems contains query stem q or is contained in it.
TitleHas(idx, q) ==
    \E k \in 1..Len(searchIndex.items[idx]._titleStems) :
        LET ts == searchIndex.items[idx]._titleStems[k]
        IN  includes(ts, lastSearch.queryStems[q]) \/ includes(lastSearch.queryStems[q], ts)

\* The entry's lower-case description contains query stem q.
DescHas(idx, q) ==
    includes(toLowerCase(TNVED_DB[idx].description), lastSearch.queryStems[q])

\* Query stem q gave weight to a code prefix the entry's code begins with.
PrefixHas(idx, q) ==
    \E p \in WeightedPrefixes :
        /\ mapHas(stemWeightCalls(lastSearch.queryStems[q], q), p)
        /\ startsWith(TNVED_DB[idx].code, p)

SubjectConfirmed(idx) ==
    UnderWeightedPrefix(idx) \/ \E q \in 1..NStems : TitleHas(idx, q)

\* C1: the returned list never has more than 30 entries.
C1_ResultCap ==
    Len(lastSearch.items) <= 30 /\ Len(lastSearch.returned) = Len(lastSearch.items)

\* More than 30 candidates pass the relevance rule and 30 are returned.
C1_Witness ==
    Called /\ Cardinality(RelevantSet) > 30 /\ Len(lastSearch.items) = 30

\* C2: searching for an alias term registered under a prefix returns every
\* catalog entry whose code begins with that prefix, unless the list is full,
\* for every alias term and every prefix length.
C2_AliasFindsEntries ==
    Called =>
        \A i \in 1..Len(SYNONYMS) : \A k \in 1..Len(SYNONYMS[i].terms) :
            lastSearch.query = SYNONYMS[i].terms[k] =>
                \A idx \in 1..Len(TNVED_DB) :
                    startsWith(TNVED_DB[idx].code, SYNONYMS[i].prefix)
                        => idx \in Returned \/ Len(lastSearch.returned) = 30

\* C3: every returned entry is subject-confirmed (weighted code prefix or
\* title-stem match); an entry matched by its description alone is never
\* returned, whatever the number of query stems.
C3_SubjectConfirmed ==
    Called => \A idx \in Returned : SubjectConfirmed(idx)

\* A multi-stem query returns entries while a candidate with a description
\* match and no subject confirmation stays out.
C3_Witness ==
    /\ Called /\ NStems >= 2 /\ Returned # {}
    /\ \E idx \in CandidateSet \ Returned :
          /\ ~SubjectConfirmed(idx)
          /\ \E q \in 1..NStems : DescHas(idx, q)

\* The stems of the query that match the entry by title, description or prefix.
MatchedStems(idx) ==
    {q \in 1..NStems : TitleHas(idx, q) \/ DescHas(idx, q) \/ PrefixHas(idx, q)}

\* ceil(0.4 * n)
CeilDensity(n) == (2 * n + 4) \div 5

\* C4: for a query of N >= 2 stems every returned entry matches at least
\* ceil(0.4 * N) of the stems by title, description or prefix signal.
C4_DensityRule ==
    (Called /\ NStems >= 2) =>
        \A idx \in Returned : Cardinality(MatchedStems(idx)) >= CeilDensity(NStems)

\* A query of three stems returns an entry and leaves out a subject-confirmed
\* candidate that matches too few stems, the cap not being reached.
C4_Witness ==
    /\ Called /\ NStems >= 3 /\ Returned # {}
    /\ Len(lastSearch.returned) < 30
    /\ \E idx \in CandidateSet \ Returned :
          SubjectConfirmed(idx) /\ Cardinality(MatchedStems(idx)) < CeilDensity(NStems)

\* C5: for a query of exactly one stem every returned entry has a score
\* strictly above the floor of 800.
C5_SingleTermFloor ==
    (Called /\ NStems = 1) => \A idx \in Returned : ScoredOf(idx).score > 800

\* A single-stem query returns entries and leaves out a candidate that scored
\* something, but not more than the floor.
C5_Witness ==
    /\ Called /\ NStems = 1 /\ Returned # {}
    /\ \E idx \in CandidateSet \ Returned :
          ScoredOf(idx).score > 0 /\ ScoredOf(idx).score <= 800

\* C6: the returned list is in non-increasing score order, equal scores keep
\* candidate insertion order, and the cut to 30 comes after the sort: the list
\* holds min(30, relevant) distinct relevant candidates and no relevant
\* candidate left out scores more than a returned one.
C6_SortedStableTop ==
    Called =>
        /\ Returned \subseteq RelevantSet
        /\ Cardinality(Returned) = Len(lastSearch.returned)
        /\ Len(lastSearch.returned) = Min(30, Cardinality(RelevantSet))
        /\ \A i, j \in 1..Len(lastSearch.returned) :
              i < j =>
                LET a == lastSearch.returned[i]
                    b == lastSearch.returned[j]
                IN  /\ ScoredOf(a).score >= ScoredOf(b).score
                    /\ ScoredOf(a).score = ScoredOf(b).score
                           => CandidatePos(a) < CandidatePos(b)
        /\ \A out \in RelevantSet \ Returned :
              \A idx \in Returned : ScoredOf(idx).score >= ScoredOf(out).score

\* More than 30 relevant candidates with different scores, some later
\* candidate outscoring an earlier one, and a tie among the returned.
C6_Witness ==
    /\ Called /\ Cardinality(RelevantSet) > 30
    /\ \E a, b \in RelevantSet :
          CandidatePos(a) < CandidatePos(b) /\ ScoredOf(a).score < ScoredOf(b).score
    /\ \E a, b \in Returned : a # b /\ ScoredOf(a).score = ScoredOf(b).score
    /\ \E out \in RelevantSet \ Returned : CandidatePos(out) <= 30

\* The whitespace-separated tokens of the query as typed.
TypedTokens(q) ==
    LET ws == splitWhitespace(toLowerCase(q))
    IN  {ws[i] : i \in 1..Len(ws)}

\* Empty, whitespace-only, or every token is a stop word or has fewer than two
\* characters other than punctuation.
Degenerate(q) ==
    \A t \in TypedTokens(q) : t \in STOP_WORDS \/ Len(stripPunctuation(t)) < 2

\* C7: a query that is empty, whitespace-only, shorter than two usable
\* characters or made of stop words only returns the empty list, through one
\* of the returns of lines 164, 171 and 174, before any index is read.
C7_DegenerateQueryEmpty ==
    (Called /\ Degenerate(lastSearch.query)) =>
        /\ lastSearch.items = <<>>
        /\ lastSearch.returnLine \in {164, 171, 174}
        /\ lastSearch.codePrefixWeights = <<>> /\ lastSearch.candidates = <<>>

\* A stop word, which is also in the description of a catalog entry, is
\* searched in a catalog with a synonym map.
C7_Witness ==
    /\ Called /\ lastSearch.query \in STOP_WORDS /\ lastSearch.returnLine = 171
    /\ SYNONYMS # <<>>
    /\ \E idx \in 1..Len(TNVED_DB) :
          includes(toLowerCase(TNVED_DB[idx].description), lastSearch.query)

emptySearchIndex == [items |-> <<>>, byPrefix2 |-> <<>>, byPrefix4 |-> <<>>, byStem |-> <<>>]

\* C8 as stated: with an empty synonym map or an empty catalog every query
\* returns the empty list.
C8_EmptyDataEmptyResult ==
    (Called /\ (SYNONYMS = <<>> \/ TNVED_DB = <<>>)) => lastSearch.items = <<>>

\* C8 as amended: with an empty catalog the catalog index is empty and every
\* query returns the empty list; with an empty synonym map the synonym index
\* is empty, no code prefix gets weight and only entries matched by a title
\* stem are returned.
C8_EmptyData ==
    /\ TNVED_DB = <<>> =>
          /\ searchIndex = emptySearchIndex
          /\ Called => lastSearch.items = <<>>
    /\ SYNONYMS = <<>> =>
          /\ stemToPrefixes = <<>> /\ stemPrefixIndex = <<>>
          /\ Called =>
                /\ lastSearch.codePrefixWeights = <<>>
                /\ \A idx \in Returned : \E q \in 1..NStems : TitleHas(idx, q)

\* A query that gives weight to a code prefix runs against the empty catalog.
C8_Witness ==
    /\ Called /\ TNVED_DB = <<>> /\ SYNONYMS # <<>>
    /\ lastSearch.returnLine = 294 /\ lastSearch.codePrefixWeights # <<>>

\* The entry's title stems match exactly one of the two query stems, and the
\* other stem is neither in its title nor in its description.
MatchesOneOfTwo(idx) ==
    \E q \in 1..2 :
        /\ TitleHas(idx, q)
        /\ ~TitleHas(idx, 3 - q)
        /\ ~includes(toLowerCase(TNVED_DB[idx].name), lastSearch.queryStems[3 - q])
        /\ ~DescHas(idx, 3 - q)

\* C9 as stated: for a query of two stems, every catalog entry whose title
\* matches one stem only (the other stem being nowhere in it) is returned.
C9_HalfDensityReturned ==
    (Called /\ NStems = 2) =>
        \A idx \in 1..Len(TNVED_DB) : MatchesOneOfTwo(idx) => idx \in Returned

\* C9 as amended: for a query of two stems, every such entry that is in the
\* candidate set has density 1/2 >= 0.4, is relevant and is returned unless
\* the list is full; entries outside the candidate set are not returned.
C9_HalfDensityCandidate ==
    (Called /\ NStems = 2) =>
        /\ \A idx \in CandidateSet :
              MatchesOneOfTwo(idx) =>
                  /\ ScoredOf(idx).matchedStemsCount = 1
                  /\ ScoredOf(idx).isRelevant
                  /\ idx \in Returned \/ Len(lastSearch.returned) = 30
        /\ Returned \subseteq CandidateSet

\* A two-stem query returns an entry matching one stem by title only while
\* another candidate of the same call is left out.
C9_Witness ==
    /\ Called /\ NStems = 2
    /\ \E idx \in Returned : MatchesOneOfTwo(idx)
    /\ CandidateSet \ Returned # {}
    /\ Len(lastSearch.returned) < 30

\* C10: getStem strips at most one ending, the longest listed ending the
\* normalized token ends with; a token with no listed ending is returned as
\* normalized.
C10_LongestSuffix ==
    lastStem.called =>
        LET t == lastStem.normalized
            r == lastStem.result
            ends == {k \in 1..Len(SUFFIXES) : endsWith(t, SUFFIXES[k])}
        IN  IF ends = {} THEN r = t
            ELSE \E k \in ends :
                    /\ t = r \o SUFFIXES[k]
                    /\ \A j \in ends : Len(SUFFIXES[j]) <= Len(SUFFIXES[k])

\* A token that ends with listed endings of different lengths and keeps a
\* non-empty stem.
C10_Witness ==
    /\ lastStem.called /\ lastStem.result # <<>>
    /\ lastStem.word # lastStem.normalized
    /\ \E j, k \in 1..Len(SUFFIXES) :
          /\ Len(SUFFIXES[j]) < Len(SUFFIXES[k])
          /\ endsWith(lastStem.normalized, SUFFIXES[j])
          /\ endsWith(lastStem.normalized, SUFFIXES[k])

\* The listed endings as a set.
SuffixSet == {SUFFIXES[k] : k \in 1..Len(SUFFIXES)}

\* C11: a non-empty token that is itself one of the listed endings is
\* returned unchanged by getStem, never as the empty string.
C11_SuffixTokenUnchanged ==
    (lastStem.called /\ lastStem.normalized \in SuffixSet) =>
        lastStem.result = lastStem.normalized /\ lastStem.result # <<>>

Digits == {"0", "1", "2", "3", "4", "5", "6", "7", "8", "9"}

\* Every character of the string is in the set.
OnlyOf(s, chars) == s # <<>> /\ \A i \in 1..Len(s) : s[i] \in chars

\* C13: for every input string, strings of only punctuation, only digits or
\* only stop words included, a call of handleSearchLocal ends at one of its
\* four return statements, without a throw, and what it returns is a possibly
\* empty list of entries of the catalog.
C13_ReturnsList ==
    Called =>
        /\ ~lastSearch.threw
        /\ lastSearch.returnLine \in {164, 171, 174, 294}
        /\ Len(lastSearch.items) = Len(lastSearch.returned)
        /\ \A i \in 1..Len(lastSearch.items) :
              /\ lastSearch.returned[i] \in 1..Len(TNVED_DB)
              /\ lastSearch.items[i].code = TNVED_DB[lastSearch.returned[i]].code
              /\ lastSearch.items[i].name = TNVED_DB[lastSearch.returned[i]].name

\* A query of digits only went through the capped scan of a catalog that is
\* not empty and returned the empty list.
C13_Witness ==
    /\ Called /\ OnlyOf(lastSearch.query, Digits)
    /\ TNVED_DB # <<>> /\ lastSearch.candidates = limitedScan
    /\ lastSearch.returnLine = 294 /\ lastSearch.items = <<>>

\* A query of punctuation only was searched.
C13_PunctuationSearched ==
    Called /\ OnlyOf(lastSearch.query, Punctuation) /\ lastSearch.returnLine = 174

\* C14: for every code prefix that received weight, of whatever length, the
\* candidate set holds every catalog entry whose code begins with it.
C14_CandidatesCoverPrefixes ==
    Called =>
        \A p \in WeightedPrefixes : \A idx \in 1..Len(TNVED_DB) :
            startsWith(TNVED_DB[idx].code, p) => idx \in CandidateSet

\* The entries that have query stem q, of three characters or more, among
\* their title stems: the postings of byStem for the stem.
TitlePosted ==
    {idx \in 1..Len(TNVED_DB) :
        \E q \in 1..NStems :
            /\ Len(lastSearch.queryStems[q]) >= 3
            /\ \E k \in 1..Len(searchIndex.items[idx]._titleStems) :
                  searchIndex.items[idx]._titleStems[k] = lastSearch.queryStems[q]}

\* The entries the 2-character and 4-character postings give for the
\* weighted prefixes.
PrefixPosted ==
    {idx \in 1..Len(TNVED_DB) :
        \E p \in WeightedPrefixes :
            \/ Len(p) = 2 /\ slice(TNVED_DB[idx].code, 2) = p
            \/ Len(p) >= 4 /\ slice(TNVED_DB[idx].code, 4) = slice(p, 4)}

\* C15: the candidates come from the title-stem postings if and only if no
\* code prefix received weight, from the capped scan if and only if, in
\* addition, no query stem has a title-stem posting, and the capped scan adds
\* exactly the first min(3000, catalog size) entries.
C15_FallbackOrder ==
    (Called /\ lastSearch.returnLine = 294) =>
        /\ WeightedPrefixes # {} => CandidateSet = PrefixPosted
        /\ (WeightedPrefixes = {} /\ TitlePosted # {}) => CandidateSet = TitlePosted
        /\ (WeightedPrefixes = {} /\ TitlePosted = {}) =>
              lastSearch.candidates = [i \in 1..Min(3000, Len(TNVED_DB)) |-> i]

\* The scan ran on a catalog of more than 3000 entries and stopped at 3000.
C15_Witness ==
    /\ Called /\ WeightedPrefixes = {} /\ TitlePosted = {}
    /\ Len(TNVED_DB) > 3000 /\ Len(lastSearch.candidates) = 3000

\* A query with a weighted prefix and a title-stem posting outside it left
\* the posted entry out of the candidates.
C15_PrefixOverTitle ==
    /\ Called /\ WeightedPrefixes # {} /\ CandidateSet # {}
    /\ TitlePosted \ CandidateSet # {}

\* A query without weighted prefix took its candidates from the title-stem
\* postings, a part of the catalog only.
C15_TitleOverScan ==
    /\ Called /\ WeightedPrefixes = {} /\ TitlePosted # {}
    /\ Cardinality(CandidateSet) < Len(TNVED_DB)

\* The accumulated weights of the weighted prefixes the entry's code begins with.
PrefixSignal(idx) ==
    LET cpw == lastSearch.codePrefixWeights
    IN  sum([i \in 1..Len(cpw) |->
                IF startsWith(TNVED_DB[idx].code, cpw[i].key) THEN cpw[i].val ELSE 0],
            1, Len(cpw))

\* The title and description weights of the query stems for the entry.
TextSignal(idx) ==
    (IF NStems >= 1 /\ TitleHas(idx, 1) THEN 4000 ELSE 0)
    + 1500 * Cardinality({q \in 2..NStems : TitleHas(idx, q)})
    + 100 * Cardinality({q \in 1..NStems : ~TitleHas(idx, q) /\ DescHas(idx, q)})

\* C16: the score of a candidate is the sum of the accumulated weights of the
\* weighted prefixes its code begins with, plus, for each query stem, 4000
\* (first stem) or 1500 (later stem) for a title-stem match, otherwise 100 for
\* a description match; a stem never earns both and is counted as matched at
\* most once.
C16_ScoreFormula ==
    Called =>
        \A i \in 1..Len(lastSearch.scored) :
            LET r == lastSearch.scored[i]
            IN  /\ r.idx = lastSearch.candidates[i]
                /\ r.score = PrefixSignal(r.idx) + TextSignal(r.idx)
                /\ r.matchedStemsCount =
                       Cardinality({q \in 1..NStems :
                                       TitleHas(r.idx, q) \/ DescHas(r.idx, q)})

\* A candidate under two weighted prefixes has a query stem in its title and
\* in its description, and a candidate has a query stem in its description
\* only.
C16_Witness ==
    /\ Called /\ NStems >= 2
    /\ \E idx \in CandidateSet :
          /\ Cardinality({p \in WeightedPrefixes :
                             startsWith(TNVED_DB[idx].code, p)}) >= 2
          /\ \E q \in 1..NStems : TitleHas(idx, q) /\ DescHas(idx, q)
    /\ \E idx \in CandidateSet :
          \E q \in 1..NStems : ~TitleHas(idx, q) /\ DescHas(idx, q)

\* The alias terms of the synonym map, as pairs of entry and position.
AliasTerms ==
    UNION {{<<i, k>> : k \in 1..Len(SYNONYMS[i].terms)} : i \in 1..Len(SYNONYMS)}

\* The alias terms with their prefix and the stem they are indexed under.
AliasStem ==
    {[term |-> a, prefix |-> SYNONYMS[a[1]].prefix,
      stem |-> getStem(trim(toLowerCase(SYNONYMS[a[1]].terms[a[2]])))] :
        a \in AliasTerms}

\* The alias stems of two characters or more, st being AliasStem.
AliasStems(st) == {r.stem : r \in {x \in st : Len(x.stem) >= 2}}

SynonymPrefixes == {SYNONYMS[i].prefix : i \in 1..Len(SYNONYMS)}

\* The number of alias terms listed under prefix p whose stem is in stems.
Occurrences(st, stems, p) ==
    Cardinality({r \in st : r.prefix = p /\ r.stem \in stems})

\* Query stem q is an exact key of the synonym stem map.
DirectHit(st, q) == lastSearch.queryStems[q] \in AliasStems(st)

\* The alias stems that share the first three characters of query stem q and
\* contain it or are contained in it, for a stem with no exact hit.
BucketMatches(st, q) ==
    IF DirectHit(st, q) THEN {}
    ELSE {m \in AliasStems(st) :
             /\ slice(m, 3) = slice(lastSearch.queryStems[q], 3)
             /\ includes(m, lastSearch.queryStems[q])
                   \/ includes(lastSearch.queryStems[q], m)}

\* What query stem q adds to the weight of prefix p.
StemWeight(st, q, p) ==
    IF DirectHit(st, q)
    THEN Occurrences(st, {lastSearch.queryStems[q]}, p) * (IF q = 1 THEN 6000 ELSE 2400)
    ELSE Occurrences(st, BucketMatches(st, q), p) * (IF q = 1 THEN 4000 ELSE 1600)

\* The accumulated weight of prefix p, 0 when it has none.
WeightOf(p) == mapGetOr(lastSearch.codePrefixWeights, p, 0)

\* The sum of the weights that a sequence of addPrefixWeight calls gives p.
CallSum(cs, p) ==
    sum([i \in 1..Len(cs) |-> IF cs[i].key = p THEN cs[i].val ELSE 0], 1, Len(cs))

\* C17: a query stem that is an exact key of the synonym stem map adds 6000
\* (first stem) or 2400 (later stem) to a prefix for each occurrence of the
\* prefix in the stem's list, k times for a prefix listed k times, and
\* nothing through the bucket lookup; when every stem is such a key, these
\* are the accumulated weights.
C17_DirectHitWeights ==
    (Called /\ lastSearch.returnLine = 294) =>
        LET st == AliasStem
        IN  /\ \A q \in 1..NStems :
                  DirectHit(st, q) =>
                      LET cs == stemWeightCalls(lastSearch.queryStems[q], q)
                      IN  /\ \A i \in 1..Len(cs) :
                                cs[i].val = (IF q = 1 THEN 6000 ELSE 2400)
                          /\ \A p \in SynonymPrefixes :
                                CallSum(cs, p) =
                                    Occurrences(st, {lastSearch.queryStems[q]}, p)
                                        * (IF q = 1 THEN 6000 ELSE 2400)
            /\ (\A q \in 1..NStems : DirectHit(st, q)) =>
                  /\ WeightedPrefixes \subseteq SynonymPrefixes
                  /\ \A p \in SynonymPrefixes :
                        WeightOf(p) =
                            sum([q \in 1..NStems |->
                                    Occurrences(st, {lastSearch.queryStems[q]}, p)
                                        * (IF q = 1 THEN 6000 ELSE 2400)],
                                1, NStems)

\* The first stem of the query is an exact key whose list names one prefix
\* twice, another stem is an exact key too, and the prefix has 2 * 6000 from
\* the first and 2 * 2400 from the other.
C17_Witness ==
    /\ Called /\ NStems >= 2 /\ \A q \in 1..NStems : DirectHit(AliasStem, q)
    /\ \E p \in SynonymPrefixes :
          /\ Occurrences(AliasStem, {lastSearch.queryStems[1]}, p) = 2
          /\ Occurrences(AliasStem, {lastSearch.queryStems[2]}, p) = 2
          /\ WeightOf(p) >= 12000 + 4800

\* C18: a query stem with no exact hit gets weight from an alias stem if and
\* only if the alias stem shares its first three characters and one of the
\* two contains the other; each such contribution is 4000 (first stem) or
\* 1600 (later stem) per listed prefix, never the 1.2 multiplier, and alias
\* stems of another bucket add nothing.
C18_BucketWeights ==
    (Called /\ lastSearch.returnLine = 294) =>
        LET st == AliasStem
        IN  /\ WeightedPrefixes \subseteq SynonymPrefixes
            /\ \A p \in SynonymPrefixes :
                  /\ WeightOf(p) =
                         sum([q \in 1..NStems |-> StemWeight(st, q, p)], 1, NStems)
                  /\ p \in WeightedPrefixes <=> WeightOf(p) > 0

\* The only query stem has no exact hit and gets 4000 per listed prefix from
\* an alias stem of its bucket, while an alias stem of another bucket
\* contains it and adds nothing to the prefix it is listed under.
C18_Witness ==
    /\ Called /\ NStems = 1 /\ ~DirectHit(AliasStem, 1)
    /\ BucketMatches(AliasStem, 1) # {}
    /\ \E m \in AliasStems(AliasStem) :
          /\ includes(m, lastSearch.queryStems[1])
          /\ slice(m, 3) # slice(lastSearch.queryStems[1], 3)
          /\ \E p \in SynonymPrefixes :
                /\ Occurrences(AliasStem, {m}, p) > 0
                /\ WeightOf(p) = 4000 * Occurrences(AliasStem, BucketMatches(AliasStem, 1), p)
                /\ WeightOf(p) > 0

\* The positions at which stem is held in the bucket map.
BucketPlaces(stem) ==
    {bj \in UNION {{<<b, j>> : j \in 1..Len(stemPrefixIndex[b].val)} :
                      b \in 1..Len(stemPrefixIndex)} :
        stemPrefixIndex[bj[1]].val[bj[2]] = stem}

\* C19: the keys of the stem map are the alias stems of two characters or
\* more; each is held exactly once in the bucket map, in the bucket keyed by
\* its first three characters, and the buckets hold nothing but keys of the
\* stem map.
C19_BucketInvariant ==
    LET keys == mapKeys(stemToPrefixes)
        keySet == {keys[i] : i \in 1..Len(keys)}
    IN  /\ Cardinality(keySet) = Len(keys)
        /\ keySet = AliasStems(AliasStem)
        /\ Cardinality({stemPrefixIndex[b].key : b \in 1..Len(stemPrefixIndex)})
               = Len(stemPrefixIndex)
        /\ \A stem \in keySet :
              /\ Cardinality(BucketPlaces(stem)) = 1
              /\ \A bj \in BucketPlaces(stem) :
                    stemPrefixIndex[bj[1]].key = slice(stem, 3)
        /\ \A b \in 1..Len(stemPrefixIndex) :
              \A j \in 1..Len(stemPrefixIndex[b].val) :
                  stemPrefixIndex[b].val[j] \in keySet

\* The index is built from a synonym map in which several aliases reduce to
\* one stem, one alias reduces to less than two characters, and two stems
\* share a bucket.
C19_Witness ==
    /\ \E i \in 1..Len(stemToPrefixes) : Len(stemToPrefixes[i].val) >= 3
    /\ \E r \in AliasStem : Len(r.stem) < 2
    /\ \E b \in 1..Len(stemPrefixIndex) : Len(stemPrefixIndex[b].val) >= 2

\* The postings map has distinct keys, and the list of each key holds, once
\* each, the entries that Owns(idx, key) names and nothing else.
PostingsAre(m, Owns(_, _)) ==
    /\ Cardinality({m[b].key : b \in 1..Len(m)}) = Len(m)
    /\ \A b \in 1..Len(m) :
          LET held == {m[b].val[j] : j \in 1..Len(m[b].val)}
          IN  /\ Cardinality(held) = Len(m[b].val)
              /\ held = {idx \in 1..Len(TNVED_DB) : Owns(idx, m[b].key)}

\* The title stems of the entry.
TitleStemsOf(idx) ==
    LET ts == searchIndex.items[idx]._titleStems
    IN  {ts[k] : k \in 1..Len(ts)}

HasCode2(idx, key) == slice(TNVED_DB[idx].code, 2) = key

HasCode4(idx, key) == slice(TNVED_DB[idx].code, 4) = key

HasTitleStem(idx, key) == Len(key) >= 3 /\ key \in TitleStemsOf(idx)

\* C20: every entry identifier is exactly once in the 2-character postings
\* list of its own code prefix, exactly once in the 4-character postings list
\* of its own code prefix and in no other prefix list; it is exactly once in
\* the postings list of stem s if s is one of its title stems of three
\* characters or more, and not at all otherwise, even when the title repeats
\* a word.
C20_PostingsInvariant ==
    /\ Len(searchIndex.items) = Len(TNVED_DB)
    /\ PostingsAre(searchIndex.byPrefix2, HasCode2)
    /\ PostingsAre(searchIndex.byPrefix4, HasCode4)
    /\ PostingsAre(searchIndex.byStem, HasTitleStem)
    /\ \A named \in {<<TNVED_DB[idx].name, searchIndex.items[idx]._titleStems>> :
                         idx \in 1..Len(TNVED_DB)} :
          named[2] = titleStems(toLowerCase(named[1]))
    /\ \A idx \in 1..Len(TNVED_DB) :
          /\ mapHas(searchIndex.byPrefix2, slice(TNVED_DB[idx].code, 2))
          /\ mapHas(searchIndex.byPrefix4, slice(TNVED_DB[idx].code, 4))
          /\ \A s \in TitleStemsOf(idx) : Len(s) >= 3 => mapHas(searchIndex.byStem, s)

\* The index is built from a catalog with a title that repeats a word, a
\* title stem of two characters and two entries with the same code.
C20_Witness ==
    /\ \E idx \in 1..Len(TNVED_DB) :
          LET ts == searchIndex.items[idx]._titleStems
          IN  \E j, k \in 1..Len(ts) : j < k /\ ts[j] = ts[k] /\ Len(ts[j]) >= 3
    /\ \E idx \in 1..Len(TNVED_DB) : \E s \in TitleStemsOf(idx) : Len(s) = 2
    /\ \E i, j \in 1..Len(TNVED_DB) : i < j /\ TNVED_DB[i].code = TNVED_DB[j].code
    /\ Len(TNVED_DB) = Len(EntryPool)

\* C21: no call of handleSearchLocal changes the synonym stem map, the bucket
\* map, the per-entry precomputed fields or a postings list: after every call
\* the indexes are the indexes as built from the synonym map and the catalog.
C21_IndexesAsBuilt ==
    /\ stemToPrefixes = buildStemToPrefixes(SYNONYMS)
    /\ stemPrefixIndex = buildStemPrefixIndex(buildStemToPrefixes(SYNONYMS))
    /\ searchIndex = buildSearchIndex(TNVED_DB)
    /\ [][<<SYNONYMS, TNVED_DB, stemToPrefixes, stemPrefixIndex, searchIndex>>'
             = <<SYNONYMS, TNVED_DB, stemToPrefixes, stemPrefixIndex, searchIndex>>]_vars

\* Two calls were made whose first stem had no exact hit and got weight from
\* the bucket lookup, and entries were returned.
C21_Witness ==
    /\ callCount = 2 /\ Called /\ lastSearch.returnLine = 294
    /\ ~mapHas(stemToPrefixes, lastSearch.queryStems[1])
    /\ lastSearch.codePrefixWeights # <<>>
    /\ lastSearch.items # <<>>

\* C26 as stated: when a code prefix received weight, every returned entry
\* has a code that begins with a weighted prefix, and the result is empty
\* when no catalog entry has such a code.
C26_ReturnedUnderWeightedPrefix ==
    (Called /\ WeightedPrefixes # {}) =>
        /\ \A idx \in Returned : UnderWeightedPrefix(idx)
        /\ (\A idx \in 1..Len(TNVED_DB) : ~UnderWeightedPrefix(idx))
               => lastSearch.items = <<>>

\* C26 as amended: when a code prefix received weight, every returned entry
\* is in the postings read for a weighted prefix: its first two characters
\* are a weighted prefix of two characters, or its first four characters are
\* the first four of a weighted prefix of four characters or more, with which
\* it need not agree beyond the fourth; an entry outside these postings is
\* never returned even if its title matches, and the result is empty when the
\* postings are (no fallback to title-stem postings or to the scan).
C26_ReturnedFromPrefixPostings ==
    (Called /\ WeightedPrefixes # {}) =>
        /\ Returned \subseteq PrefixPosted
        /\ CandidateSet = PrefixPosted
        /\ PrefixPosted = {} => lastSearch.items = <<>>

\* A returned entry shares only the first four characters with a weighted
\* prefix of six, while an entry whose title matches a query stem is outside
\* the postings and is not returned.
C26_Witness ==
    /\ Called /\ WeightedPrefixes # {}
    /\ \E idx \in Returned : ~UnderWeightedPrefix(idx)
    /\ \E idx \in 1..Len(TNVED_DB) :
          /\ idx \notin PrefixPosted /\ idx \notin Returned
          /\ \E q \in 1..NStems : TitleHas(idx, q)

\* C27: for a query of one stem every subject-confirmed candidate scores at
\* least 4000, so the floor of 800 rejects none of them: the relevant
\* candidates are exactly the subject-confirmed ones, and the returned list is
\* these candidates ranked and cut to 30.
C27_SingleStemConfirmed ==
    (Called /\ NStems = 1) =>
        /\ \A idx \in CandidateSet :
              SubjectConfirmed(idx) => ScoredOf(idx).score >= 4000
        /\ RelevantSet = {idx \in CandidateSet : SubjectConfirmed(idx)}
        /\ LET ranked == rank(SelectSeq(lastSearch.scored,
                                        LAMBDA r : SubjectConfirmed(r.idx)))
           IN  /\ Len(lastSearch.returned) = Len(ranked)
               /\ \A k \in 1..Len(ranked) : lastSearch.returned[k] = ranked[k].idx
        /\ Len(lastSearch.returned) = Min(30, Cardinality(RelevantSet))

\* A single-stem query has a subject-confirmed candidate that scores exactly
\* 4000, the least a weighted prefix or a title match gives, and it is returned.
C27_Witness ==
    /\ Called /\ NStems = 1
    /\ \E idx \in Returned :
          /\ ScoredOf(idx).score = 4000
          /\ UnderWeightedPrefix(idx)
          /\ ~TitleHas(idx, 1)

\* More subject-confirmed candidates than the cut lets through.
C27_WitnessCut ==
    /\ Called /\ NStems = 1
    /\ Cardinality({idx \in CandidateSet : SubjectConfirmed(idx)}) > 30
    /\ Len(lastSearch.returned) = 30

\* C30: no catalog position appears more than once in the candidates or in
\* the returned list, however many weighted prefixes or title-stem postings
\* lead to it; positions are what is kept apart, so two entries with the
\* same code may both be returned.
C30_NoDuplicates ==
    Called =>
        /\ \A i, j \in 1..Len(lastSearch.returned) :
              lastSearch.returned[i] = lastSearch.returned[j] => i = j
        /\ \A i, j \in 1..Len(lastSearch.candidates) :
              lastSearch.candidates[i] = lastSearch.candidates[j] => i = j
        /\ \A k \in 1..Len(lastSearch.items) :
              lastSearch.items[k] = searchIndex.items[lastSearch.returned[k]]

\* A returned entry is in the postings of two weighted prefixes, or of the
\* title stems of two query stems.
C30_Witness ==
    /\ Called
    /\ \E idx \in Returned :
          \/ \E p1, p2 \in WeightedPrefixes :
                /\ p1 # p2
                /\ \E k \in 1..Len(addCandidatesFromPrefix(p1)) :
                      addCandidatesFromPrefix(p1)[k] = idx
                /\ \E k \in 1..Len(addCandidatesFromPrefix(p2)) :
                      addCandidatesFromPrefix(p2)[k] = idx
          \/ /\ WeightedPrefixes = {}
             /\ \E q1, q2 \in 1..NStems :
                   LET l1 == mapGetOr(searchIndex.byStem, lastSearch.queryStems[q1], <<>>)
                       l2 == mapGetOr(searchIndex.byStem, lastSearch.queryStems[q2], <<>>)
                   IN  /\ q1 # q2
                       /\ \E k \in 1..Len(l1) : l1[k] = idx
                       /\ \E k \in 1..Len(l2) : l2[k] = idx

\* Two returned entries at different positions have the same code.
C30_WitnessSameCode ==
    /\ Called
    /\ \E i, j \in Returned : i # j /\ TNVED_DB[i].code = TNVED_DB[j].code

\* The query with a token typed in front of it, behind it, and behind the
\* first whitespace that follows a word (behind the query when there is none).
InsertFront(q, token) == token \o <<" ">> \o q

InsertEnd(q, token) == q \o <<" ">> \o token

InsertMiddle(q, token) ==
    LET gaps == {i \in 2..Len(q) : q[i] \in Whitespace /\ q[i - 1] \notin Whitespace}
    IN  IF gaps = {} THEN InsertEnd(q, token)
        ELSE LET i == CHOOSE g \in gaps : \A h \in gaps : g <= h
             IN  SubSeq(q, 1, i) \o token \o <<" ">> \o SubSeq(q, i + 1, Len(q))

\* C29: a stop word, in any case, or a token of fewer than two characters
\* typed into the query, in front of it, between its words or behind it, does
\* not change the returned list or its order.
C29_NoiseTokensIgnored ==
    Called =>
        /\ handleSearchLocal(InsertFront(lastSearch.query, <<"d","l","ya">>)).items
               = lastSearch.items
        /\ handleSearchLocal(InsertMiddle(lastSearch.query, <<"ya">>)).items
               = lastSearch.items
        /\ handleSearchLocal(InsertEnd(lastSearch.query, <<"N","a">>)).items
               = lastSearch.items

\* A query of two stems returns two entries or more, so that the list has
\* an order and the first stem an importance the inserted token could take.
C29_Witness ==
    /\ Called /\ NStems >= 2 /\ Len(lastSearch.items) >= 2
    /\ lastSearch.codePrefixWeights # <<>>
    /\ \E i, j \in Returned : ScoredOf(i).score # ScoredOf(j).score
    /\ InsertMiddle(lastSearch.query, <<"ya">>) # InsertEnd(lastSearch.query, <<"ya">>)

\* C22: in the form-driven App a search is triggered only while isSearching
\* is false, so at most one search timer is pending, the loading flag is set
\* exactly while it is, and a result is written only by the one pending timer:
\* none newer is pending whose result it could come before or after.
C22_OneSearchInFlight ==
    /\ Len(timers) <= 1
    /\ isSearching <=> timers # <<>>
    /\ [][/\ Len(timers') > Len(timers) => (~isSearching /\ timers' = <<Head(timers')>>)
          /\ Len(timers') < Len(timers) =>
                /\ timers' = <<>>
                /\ lastSearch'.query = Head(timers)
                /\ searchResults' = lastSearch'.items]_vars

\* A second search is made after the first one finished, with another query
\* and with the results of the first on display until then.
C22_Witness ==
    /\ isSearching /\ Len(timers) = 1
    /\ lastSearch.called /\ lastSearch.items # <<>>
    /\ lastSearch.query # Head(timers)
    /\ searchQuery # Head(timers)

\* C23: in the form-driven App isSearching implies that searchResults is
\* empty and hasSearched is false; the "nothing found" hint is on display only
\* when a search is finished and returned the empty list: never while a
\* search is in flight, never before the first search.
C23_LoadingShowsNothing ==
    /\ isSearching => (searchResults = <<>> /\ ~hasSearched)
    /\ showNoResultsHint =>
          /\ timers = <<>>
          /\ lastSearch.called /\ ~lastSearch.threw
          /\ lastSearch.items = <<>>
    /\ hasSearched => (lastSearch.called /\ searchResults = lastSearch.items)

\* A search is in flight after an earlier one put results on display.
C23_Witness ==
    /\ isSearching /\ searchResults = <<>> /\ ~hasSearched
    /\ lastSearch.called /\ lastSearch.items # <<>>

\* The hint is on display after a search of a catalog with entries.
C23_WitnessHint ==
    showNoResultsHint /\ lastSearch.returnLine = 294 /\ TNVED_DB # <<>>

\* The queries a search can be triggered with.
TriggerQueries == (FormInputs \cup Suggestions) \ {<<>>, <<" ">>}

\* C24: in the form-driven App every triggerSearch(q) is followed, when its
\* timer has fired, by a state with isSearching false, hasSearched true and
\* searchResults = handleSearchLocal(q); the loading flag is not set forever.
C24_SearchCompletes ==
    /\ \A q \in TriggerQueries :
          (isSearching /\ timers = <<q>>)
             ~> (/\ ~isSearching /\ hasSearched /\ timers = <<>>
                 /\ searchResults = handleSearchLocal(q).items)
    /\ isSearching ~> ~isSearching

\* A triggered search has finished with results on display.
C24_Witness ==
    /\ ~isSearching /\ hasSearched /\ timers = <<>>
    /\ lastSearch.query \in TriggerQueries
    /\ searchResults = handleSearchLocal(lastSearch.query).items
    /\ searchResults # <<>>

\* What the timer of the debounced App writes for the query q.
ResultsFor(q) == debouncedResults(rawQueryOf(q), queryTokensOf(rawQueryOf(q)))

\* C25: in the debounced App at most one search timer is pending, it is the
\* timer of the current searchQuery, and a timer that fires writes the results
\* for the current searchQuery: a change of searchQuery cancelled the timer of
\* the value before.
C25_OneTimerLatestQuery ==
    /\ Len(timers) <= 1
    /\ timers # <<>> => (timers[1].searchQuery = searchQuery /\ isSearching)
    /\ cleared # <<>> => cleared[1].searchQuery # searchQuery
    /\ [][Len(timers') < Len(timers) /\ searchQuery' = searchQuery
              => searchResults' = ResultsFor(searchQuery)]_vars

\* The timer of one query was cancelled by the change to another, whose timer
\* is pending, and both queries have results, which differ.
C25_Witness ==
    /\ cleared # <<>> /\ Len(timers) = 1
    /\ timers[1].searchQuery = searchQuery
    /\ ResultsFor(cleared[1].searchQuery) # <<>>
    /\ ResultsFor(searchQuery) # <<>>
    /\ ResultsFor(cleared[1].searchQuery) # ResultsFor(searchQuery)

\* C28: in the debounced App, whenever isSearching is false and hasSearched
\* is true, searchResults is the filtered and sorted result for the current
\* searchQuery.
C28_ResultsForCurrentQuery ==
    (~isSearching /\ hasSearched) => searchResults = ResultsFor(searchQuery)

\* The field holds a stop word of fewer than 3 characters, no search is in
\* flight, and the results of the query before are on display.
C28_StaleResults ==
    /\ ~isSearching /\ hasSearched /\ timers = <<>>
    /\ queryTokensOf(rawQueryOf(searchQuery)) = <<>>
    /\ Len(rawQueryOf(searchQuery)) < 3
    /\ searchResults # <<>>

====
